---------------------------- MODULE Spec2Model ----------------------------
(***************************************************************************)
(* Pull-request risk-assessment webhook (src/lambda_function.py).          *)
(*                                                                         *)
(* Python str values are sequences of one-character strings, so that       *)
(* re.search, str.upper, str.replace, len and f-string formatting are      *)
(* computed character by character.  Characters outside ASCII are written  *)
(* by code point ("U+26A0").                                               *)
(*                                                                         *)
(* Four specifications share the module:                                  *)
(*   Spec        one invocation of lambda_handler on any webhook event     *)
(*   SpecDeliver the same event delivered again to lambda_handler          *)
(*   SpecKey     extract_jira_key applied to a text                        *)
(*   SpecPrompt  build_final_prompt applied to a template and a context    *)
(***************************************************************************)
EXTENDS Integers, Sequences, FiniteSets, TLC

VARIABLES
    event,            \* the inbound webhook event
    pc,               \* position of lambda_handler
    body,             \* local body (parsed payload)
    pr_data,          \* local pr_data
    pr_title,         \* local pr_title
    pr_number,        \* local pr_number
    diff_url,         \* local diff_url
    diff,             \* local diff
    jira_key,         \* local jira_key
    jira_data,        \* local jira_data (bound or not)
    repo_prompt,      \* local repo_prompt
    context,          \* local context (the PromptContext)
    final_prompt,     \* local final_prompt
    risk_assessment,  \* local risk_assessment
    response,         \* the value lambda_handler returns
    calls,            \* collaborator calls made by this invocation, in order
    raised,           \* messages of the exceptions raised in this invocation
    escaped,          \* the exception that reached the handler's own except
    outcome,          \* what the collaborators answered in this invocation
    delivery,         \* ordinal of this delivery of the event
    prev,             \* outcome and response of the previous delivery
    text,             \* SpecKey: argument of extract_jira_key
    key,              \* SpecKey: its result
    template,         \* SpecPrompt: argument template
    promptContext,    \* SpecPrompt: argument context
    built             \* SpecPrompt: result of build_final_prompt

handlerVars ==
    <<event, pc, body, pr_data, pr_title, pr_number, diff_url, diff,
      jira_key, jira_data, repo_prompt, context, final_prompt,
      risk_assessment, response, calls, raised, escaped, outcome,
      delivery, prev>>

keyVars ==
    <<text, key>>

promptVars ==
    <<template, promptContext, built>>

vars ==
    <<handlerVars, keyVars, promptVars>>

-----------------------------------------------------------------------------
(* Bounds                                                                  *)

MaxDeliveries ==
    2

MaxTextLen ==
    7

MaxPieces ==
    3

-----------------------------------------------------------------------------
(* String literals of the source                                           *)

StrOpened ==
    <<"o","p","e","n","e","d">>
StrClosed ==
    <<"c","l","o","s","e","d">>
MsgNotNewPR ==
    <<"N","o","t"," ","a"," ","n","e","w"," ","P","R"," ","e","v","e","n","t">>
MsgIgnoringDraft ==
    <<"I","g","n","o","r","i","n","g"," ","d","r","a","f","t"," ","P","R">>
MsgProcessed ==
    <<"P","R"," ","e","v","e","n","t"," ","p","r","o","c","e","s","s","e","d"," ","s","u","c","c","e","s","s","f","u","l","l","y">>
UnknownPR ==
    <<"U","n","k","n","o","w","n"," ","P","R">>
UnknownNumber ==
    <<"U","n","k","n","o","w","n">>
DefaultPrompt ==
    <<"D","e","f","a","u","l","t"," ","R","i","s","k"," ","A","s","s","e","s","s","m","e","n","t"," ","P","r","o","m","p","t">>
ClaudeErrorSentinel ==
    <<"U+26A0","U+FE0F"," ","E","r","r","o","r"," ","r","u","n","n","i","n","g"," ","C","l","a","u","d","e"," ","m","o","d","e","l">>
NoDescriptionFound ==
    <<"N","o"," ","d","e","s","c","r","i","p","t","i","o","n"," ","f","o","u","n","d">>
GitHubErrorPrefix ==
    <<"G","i","t","H","u","b"," ","A","P","I"," ","r","e","t","u","r","n","e","d"," ">>
ColonSpace ==
    <<":"," ">>
JiraErrorPrefix ==
    <<"F","a","i","l","e","d"," ","t","o"," ","f","e","t","c","h"," ","J","I","R","A"," ","t","i","c","k","e","t"," ">>
UnboundLocalMsg ==
    <<"c","a","n","n","o","t"," ","a","c","c","e","s","s"," ","l","o","c","a","l"," ","v","a","r","i","a","b","l","e"," ","'","j","i","r","a","_","d","a","t","a","'"," ","w","h","e","r","e"," ","i","t"," ","i","s"," ","n","o","t"," ","a","s","s","o","c","i","a","t","e","d"," ","w","i","t","h"," ","a"," ","v","a","l","u","e">>
NoneLenMsg ==
    <<"o","b","j","e","c","t"," ","o","f"," ","t","y","p","e"," ","'","N","o","n","e","T","y","p","e","'"," ","h","a","s"," ","n","o"," ","l","e","n","(",")">>
MissingSchemaMsg ==
    <<"I","n","v","a","l","i","d"," ","U","R","L"," ","'","N","o","n","e","'",":"," ","N","o"," ","s","c","h","e","m","e"," ","s","u","p","p","l","i","e","d","."," ","P","e","r","h","a","p","s"," ","y","o","u"," ","m","e","a","n","t"," ","h","t","t","p","s",":","/","/","N","o","n","e","?">>
JSONDecodeMsg ==
    <<"E","x","p","e","c","t","i","n","g"," ","v","a","l","u","e",":"," ","l","i","n","e"," ","1"," ","c","o","l","u","m","n"," ","1"," ","(","c","h","a","r"," ","0",")">>
KeyErrorSummaryMsg ==
    <<"'","s","u","m","m","a","r","y","'">>
IndexErrorMsg ==
    <<"l","i","s","t"," ","i","n","d","e","x"," ","o","u","t"," ","o","f"," ","r","a","n","g","e">>
TokGithubTitle ==
    <<"$","{","g","i","t","h","u","b","T","i","t","l","e","}">>
TokGithubDescription ==
    <<"$","{","g","i","t","h","u","b","D","e","s","c","r","i","p","t","i","o","n","}">>
TokJiraTitle ==
    <<"$","{","j","i","r","a","T","i","t","l","e","}">>
TokJiraDescription ==
    <<"$","{","j","i","r","a","D","e","s","c","r","i","p","t","i","o","n","}">>
TokBranchDiff ==
    <<"$","{","b","r","a","n","c","h","D","i","f","f","}">>
RepoName ==
    <<"r","e","p","o">>
DiffUrlValue ==
    <<"h","t","t","p","s",":","/","/","d">>
TitleWithKey ==
    <<"a","b","-","1","2"," ","f","i","x">>
TitleNoKey ==
    <<"f","i","x"," ","1","2">>
BodyText ==
    <<"d","e","s","c">>
DiffA ==
    <<"+","x">>
DiffB ==
    <<"-","x","+","y">>
TextBusy ==
    <<"b","u","s","y">>
SsmErrorMsg ==
    <<"P","a","r","a","m","e","t","e","r","N","o","t","F","o","u","n","d">>
ConnectionErrorMsg ==
    <<"C","o","n","n","e","c","t","i","o","n"," ","r","e","f","u","s","e","d">>
S3ErrorMsg ==
    <<"N","o","S","u","c","h","K","e","y">>
BedrockClientErrorMsg ==
    <<"U","n","k","n","o","w","n"," ","s","e","r","v","i","c","e",":"," ","'","b","e","d","r","o","c","k","-","r","u","n","t","i","m","e","'">>
BedrockInvokeErrorMsg ==
    <<"T","h","r","o","t","t","l","i","n","g","E","x","c","e","p","t","i","o","n">>
JiraSummary ==
    <<"L","o","g","i","n"," ","b","u","g">>
JiraDescription ==
    <<"F","i","x"," ","i","t">>
ModelText ==
    <<"l","o","w"," ","r","i","s","k">>
StoredTemplate ==
    <<"$","{","g","i","t","h","u","b","T","i","t","l","e","}",":"," ","$","{","j","i","r","a","T","i","t","l","e","}"," ","$","{","b","r","a","n","c","h","D","i","f","f","}">>

StatusOK ==
    200

StatusError ==
    500

-----------------------------------------------------------------------------
(* Python values: str, int, bool, None, and "key not in the dict"          *)

Absent ==
    [t |-> "absent", s |-> <<>>, n |-> 0, b |-> FALSE]

None ==
    [t |-> "None", s |-> <<>>, n |-> 0, b |-> FALSE]

PyStr(s) ==
    [t |-> "str", s |-> s, n |-> 0, b |-> FALSE]

PyInt(n) ==
    [t |-> "int", s |-> <<>>, n |-> n, b |-> FALSE]

PyBool(b) ==
    [t |-> "bool", s |-> <<>>, n |-> 0, b |-> b]

\* dict.get(key, default)
Get(v, default) ==
    IF v = Absent THEN default ELSE v

\* truth value of a Python value
Truthy(v) ==
    CASE v.t = "str"  -> v.s # <<>>
      [] v.t = "int"  -> v.n # 0
      [] v.t = "bool" -> v.b
      [] OTHER        -> FALSE

Range(f) ==
    {f[i] : i \in DOMAIN f}

-----------------------------------------------------------------------------
(* Characters                                                              *)

LowerCase ==
    <<"a","b","c","d","e","f","g","h","i","j","k","l","m","n","o","p","q","r","s","t","u","v","w","x","y","z">>

UpperCase ==
    <<"A","B","C","D","E","F","G","H","I","J","K","L","M","N","O","P","Q","R","S","T","U","V","W","X","Y","Z">>

DigitChars ==
    <<"0","1","2","3","4","5","6","7","8","9">>

DigitSet ==
    Range(DigitChars)

LowerSet ==
    Range(LowerCase)

WordSet ==
    Range(LowerCase) \cup Range(UpperCase) \cup Range(DigitChars) \cup {"_"}

\* \d
IsDigit(c) ==
    c \in DigitSet

\* \w
IsWord(c) ==
    c \in WordSet

ToUpper(c) ==
    IF c \in LowerSet
    THEN UpperCase[CHOOSE i \in DOMAIN LowerCase : LowerCase[i] = c]
    ELSE c

\* str.upper()
Upper(s) ==
    [i \in 1..Len(s) |-> ToUpper(s[i])]

\* str(n) for n >= 0
RECURSIVE Decimal(_)
Decimal(n) ==
    IF n < 10 THEN <<DigitChars[n + 1]>>
    ELSE Decimal(n \div 10) \o <<DigitChars[(n % 10) + 1]>>

\* sub in s
Contains(s, sub) ==
    \E i \in 1..(Len(s) - Len(sub) + 1) : SubSeq(s, i, i + Len(sub) - 1) = sub

-----------------------------------------------------------------------------
(* extract_jira_key: re.search(r'\b[\w]+-\d+\b', text, re.IGNORECASE)      *)

\* \b before position p (1 .. Len(s)+1)
WordBoundary(s, p) ==
    LET before == p > 1 /\ IsWord(s[p - 1])
        after  == p <= Len(s) /\ IsWord(s[p])
    IN  before # after

\* the pattern without its closing \b
KeyMatchesAtUnanchored(s, i) ==
    {m \in (i..Len(s)) \X (i..Len(s)) :
        /\ WordBoundary(s, i)
        /\ \A p \in i..m[1] : IsWord(s[p])
        /\ m[1] + 1 <= Len(s)
        /\ s[m[1] + 1] = "-"
        /\ m[1] + 2 <= m[2]
        /\ \A p \in (m[1] + 2)..m[2] : IsDigit(s[p])}

\* <<a, b>>: [\w]+ covers i..a, the hyphen is at a+1, \d+ covers a+2..b
KeyMatchesAt(s, i) ==
    {m \in (i..Len(s)) \X (i..Len(s)) :
        /\ WordBoundary(s, i)
        /\ \A p \in i..m[1] : IsWord(s[p])
        /\ m[1] + 1 <= Len(s)
        /\ s[m[1] + 1] = "-"
        /\ m[1] + 2 <= m[2]
        /\ \A p \in (m[1] + 2)..m[2] : IsDigit(s[p])
        /\ WordBoundary(s, m[2] + 1)}

\* both quantifiers are greedy: longest [\w]+ first, then longest \d+
GreedyMatch(ms) ==
    CHOOSE m \in ms : \A o \in ms : o[1] < m[1] \/ (o[1] = m[1] /\ o[2] <= m[2])

\* re.search: the match at the leftmost start that has one, as <<i, b>>
ReSearch(s) ==
    LET starts == {i \in 1..Len(s) : KeyMatchesAt(s, i) # {}}
    IN  IF starts = {} THEN <<>>
        ELSE LET i == CHOOSE j \in starts : \A o \in starts : j <= o
             IN  <<i, GreedyMatch(KeyMatchesAt(s, i))[2]>>

extract_jira_key(s) ==
    LET match == ReSearch(s)
    IN  IF match = <<>> THEN None
        ELSE PyStr(Upper(SubSeq(s, match[1], match[2])))

-----------------------------------------------------------------------------
(* build_final_prompt                                                      *)

\* the keys of placeholders, in dict insertion order
PlaceholderKeys ==
    <<"githubTitle", "githubDescription", "jiraTitle", "jiraDescription", "branchDiff">>

Token(k) ==
    CASE k = "githubTitle"       -> TokGithubTitle
      [] k = "githubDescription" -> TokGithubDescription
      [] k = "jiraTitle"         -> TokJiraTitle
      [] k = "jiraDescription"   -> TokJiraDescription
      [] k = "branchDiff"        -> TokBranchDiff

StartsWithAt(s, i, old) ==
    /\ i + Len(old) - 1 <= Len(s)
    /\ SubSeq(s, i, i + Len(old) - 1) = old

RECURSIVE ReplaceFrom(_, _, _, _)
ReplaceFrom(s, i, old, new) ==
    IF i > Len(s) THEN <<>>
    ELSE IF StartsWithAt(s, i, old)
         THEN new \o ReplaceFrom(s, i + Len(old), old, new)
         ELSE <<s[i]>> \o ReplaceFrom(s, i + 1, old, new)

\* s.replace(old, new), old non-empty: leftmost non-overlapping occurrences
StrReplace(s, old, new) ==
    ReplaceFrom(s, 1, old, new)

\* placeholders = {token: context.get(name, "")}
Placeholders(ctx) ==
    [k \in Range(PlaceholderKeys) |-> Get(ctx[k], PyStr(<<>>))]

\* the for loop over placeholders.items() taken in the given order,
\* from the i-th item on
RECURSIVE ReplaceLoop(_, _, _, _)
ReplaceLoop(tmpl, placeholders, order, i) ==
    IF i > Len(order)
    THEN [raises |-> FALSE, value |-> tmpl, msg |-> <<>>]
    ELSE LET k == order[i]
             v == placeholders[k]
         IN  IF v.t # "str"
             THEN [raises |-> TRUE, value |-> <<>>, msg |-> NoneLenMsg]
             ELSE ReplaceLoop(StrReplace(tmpl, Token(k), v.s), placeholders, order, i + 1)

build_final_prompt(tmpl, ctx) ==
    ReplaceLoop(tmpl, Placeholders(ctx), PlaceholderKeys, 1)

-----------------------------------------------------------------------------
(* Webhook events                                                          *)

\* a local that has not been assigned
Unbound ==
    [t |-> "unbound", s |-> <<>>, n |-> 0, b |-> FALSE]

\* pull_request as a dict over the fields the handler reads
PullRequestDicts ==
    [t : {"dict"},
     draft : {Absent, PyBool(TRUE), PyBool(FALSE)},
     title : {Absent, PyStr(TitleWithKey), PyStr(TitleNoKey)},
     number : {Absent, PyInt(7)},
     body : {Absent, None, PyStr(BodyText)},
     diff_url : {Absent, PyStr(DiffUrlValue)}]

NoPullRequest(kind) ==
    [t |-> kind, draft |-> Absent, title |-> Absent, number |-> Absent,
     body |-> Absent, diff_url |-> Absent]

\* the {} that body.get("pull_request", {}) defaults to
EmptyDict ==
    NoPullRequest("dict")

PullRequests ==
    PullRequestDicts \cup {NoPullRequest("absent"), NoPullRequest("None")}

Repositories ==
    [t : {"dict"}, name : {Absent, PyStr(RepoName)}] \cup {[t |-> "absent", name |-> Absent]}

Payloads ==
    [action : {Absent, PyStr(StrOpened), PyStr(StrClosed)},
     pull_request : PullRequests,
     repository : Repositories]

GarbagePayload ==
    [action |-> Absent, pull_request |-> NoPullRequest("absent"),
     repository |-> [t |-> "absent", name |-> Absent]]

\* hasBody: the payload is wrapped as a JSON string under "body";
\* bodyValid: that string parses
Events ==
    [hasBody : BOOLEAN, bodyValid : {TRUE}, payload : Payloads]
    \cup {[hasBody |-> TRUE, bodyValid |-> FALSE, payload |-> GarbagePayload]}

\* the events delivered more than once in SpecDeliver
DeliveredEvents ==
    {e \in Events :
        /\ ~e.hasBody
        /\ e.payload.action # Absent
        /\ e.payload.pull_request.t = "dict"
        /\ e.payload.pull_request.number # Absent
        /\ e.payload.pull_request.diff_url # Absent
        /\ e.payload.pull_request.title # Absent
        /\ e.payload.repository.t = "dict"}

-----------------------------------------------------------------------------
(* What the collaborators can answer                                       *)

NotCalled ==
    [kind |-> "not_called", status |-> 0, text |-> <<>>, msg |-> <<>>]

DiffOutcomes ==
    {[kind |-> "ssm_raises", status |-> 0, text |-> <<>>, msg |-> SsmErrorMsg],
     [kind |-> "invalid_url", status |-> 0, text |-> <<>>, msg |-> MissingSchemaMsg],
     [kind |-> "get_raises", status |-> 0, text |-> <<>>, msg |-> ConnectionErrorMsg]}
    \cup [kind : {"response"}, status : {503, 404}, text : {TextBusy}, msg : {<<>>}]
    \cup [kind : {"response"}, status : {200}, text : {DiffA, DiffB}, msg : {<<>>}]

\* description: "falsy" (missing or null), "text" (the nested text), or
\* "malformed" (a description without content[0].content[0].text)
TicketOutcomes ==
    {[kind |-> "ssm_raises", status |-> 0, text |-> <<>>, msg |-> SsmErrorMsg,
      summary |-> Absent, description |-> "falsy"],
     [kind |-> "get_raises", status |-> 0, text |-> <<>>, msg |-> ConnectionErrorMsg,
      summary |-> Absent, description |-> "falsy"],
     [kind |-> "response", status |-> 404, text |-> TextBusy, msg |-> <<>>,
      summary |-> Absent, description |-> "falsy"]}
    \cup [kind : {"response"}, status : {200}, text : {<<>>}, msg : {<<>>},
          summary : {Absent, PyStr(JiraSummary)},
          description : {"falsy", "text", "malformed"}]

NoTicketCall ==
    [kind |-> "not_called", status |-> 0, text |-> <<>>, msg |-> <<>>,
     summary |-> Absent, description |-> "falsy"]

\* the store's table as the set of its <<Repo, Prompt>> rows
TemplateOutcomes ==
    {[kind |-> "raises", msg |-> S3ErrorMsg, rows |-> {}],
     [kind |-> "ok", msg |-> <<>>, rows |-> {<<RepoName, StoredTemplate>>}]}

ModelOutcomes ==
    {[kind |-> "client_raises", msg |-> BedrockClientErrorMsg, text |-> <<>>],
     [kind |-> "invoke_raises", msg |-> BedrockInvokeErrorMsg, text |-> <<>>],
     [kind |-> "ok", msg |-> <<>>, text |-> ModelText]}

NoOutcome ==
    [diff |-> NotCalled, ticket |-> NoTicketCall,
     template |-> [kind |-> "not_called", msg |-> <<>>, rows |-> {}],
     model |-> [kind |-> "not_called", msg |-> <<>>, text |-> <<>>]]

-----------------------------------------------------------------------------
(* Responses                                                               *)

NoResponse ==
    [statusCode |-> 0, body |-> [none |-> TRUE]]

IgnoredResponse(message) ==
    [statusCode |-> StatusOK, body |-> [message |-> message]]

\* the success body with the number read from a dict that lacks it
SuccessResponseDefaultNumber(number, d) ==
    [statusCode |-> StatusOK,
     body |-> [message |-> MsgProcessed, pr_number |-> PyStr(UnknownNumber),
               diff_length |-> Len(d)]]

SuccessResponse(number, d) ==
    [statusCode |-> StatusOK,
     body |-> [message |-> MsgProcessed, pr_number |-> number, diff_length |-> Len(d)]]

\* the except branch answering with the success status
ErrorResponseStatusOK(message) ==
    [statusCode |-> StatusOK, body |-> [error |-> message]]

ErrorResponse(message) ==
    [statusCode |-> StatusError, body |-> [error |-> message]]

-----------------------------------------------------------------------------
(* The steps of lambda_handler as functions of their inputs                *)

\* not pr_data
IsEmptyPR(pr) ==
    \/ pr.t = "None"
    \/ pr = EmptyDict

\* the check without its draft half
IsIgnoredPRNoDraft(pr) ==
    IsEmptyPR(pr)

\* not pr_data or pr_data.get("draft", False)
IsIgnoredPR(pr) ==
    IsEmptyPR(pr) \/ Truthy(Get(pr.draft, PyBool(FALSE)))

\* body.get("pull_request", {})
PrDataOf(b) ==
    IF b.pull_request.t = "absent" THEN EmptyDict ELSE b.pull_request

ValidateEvent(e) ==
    IF e.hasBody /\ ~e.bodyValid
    THEN [kind |-> "raises", msg |-> JSONDecodeMsg, response |-> NoResponse]
    ELSE IF Get(e.payload.action, None) # PyStr(StrOpened)
    THEN [kind |-> "ignored", msg |-> <<>>, response |-> IgnoredResponse(MsgNotNewPR)]
    ELSE IF IsIgnoredPR(PrDataOf(e.payload))
    THEN [kind |-> "ignored", msg |-> <<>>, response |-> IgnoredResponse(MsgIgnoringDraft)]
    ELSE [kind |-> "accepted", msg |-> <<>>, response |-> NoResponse]

\* the message without the status code
DiffErrorMessageNoStatus(status, t) ==
    GitHubErrorPrefix \o t

DiffErrorMessage(status, t) ==
    GitHubErrorPrefix \o Decimal(status) \o ColonSpace \o t

fetch_pr_diff(url, o) ==
    IF o.kind = "ssm_raises"
    THEN [raises |-> TRUE, msg |-> o.msg, value |-> <<>>,
          calls |-> <<"fetch_pr_diff", "ssm.get_parameter">>]
    ELSE IF o.kind # "response"
    THEN [raises |-> TRUE, msg |-> o.msg, value |-> <<>>,
          calls |-> <<"fetch_pr_diff", "ssm.get_parameter", "requests.get:diff">>]
    ELSE IF o.status # 200
    THEN [raises |-> TRUE, msg |-> DiffErrorMessage(o.status, o.text), value |-> <<>>,
          calls |-> <<"fetch_pr_diff", "ssm.get_parameter", "requests.get:diff">>]
    ELSE [raises |-> FALSE, msg |-> <<>>, value |-> o.text,
          calls |-> <<"fetch_pr_diff", "ssm.get_parameter", "requests.get:diff">>]

UnboundJiraData ==
    [bound |-> FALSE, key |-> Absent, summary |-> Absent, description |-> Absent]

fetch_jira_ticket(k, o) ==
    IF o.kind = "ssm_raises"
    THEN [raises |-> TRUE, msg |-> o.msg, value |-> UnboundJiraData,
          calls |-> <<"fetch_jira_ticket", "ssm.get_parameter">>]
    ELSE LET called == <<"fetch_jira_ticket", "ssm.get_parameter", "ssm.get_parameter",
                         "ssm.get_parameter", "requests.get:jira">>
         IN  IF o.kind # "response"
             THEN [raises |-> TRUE, msg |-> o.msg, value |-> UnboundJiraData, calls |-> called]
             ELSE IF o.status # 200
             THEN [raises |-> TRUE, msg |-> JiraErrorPrefix \o k \o ColonSpace \o o.text,
                   value |-> UnboundJiraData, calls |-> called]
             ELSE IF o.summary = Absent
             THEN [raises |-> TRUE, msg |-> KeyErrorSummaryMsg,
                   value |-> UnboundJiraData, calls |-> called]
             ELSE IF o.description = "malformed"
             THEN [raises |-> TRUE, msg |-> IndexErrorMsg,
                   value |-> UnboundJiraData, calls |-> called]
             ELSE [raises |-> FALSE, msg |-> <<>>, calls |-> called,
                   value |-> [bound |-> TRUE, key |-> PyStr(k), summary |-> o.summary,
                              description |-> IF o.description = "text"
                                              THEN PyStr(JiraDescription)
                                              ELSE PyStr(NoDescriptionFound)]]

\* the prompt_map returned: the rows read, or {} when anything raised
load_prompt_templates_from_s3(o) ==
    IF o.kind = "raises" THEN {} ELSE o.rows

\* prompt_templates.get(name, default)
Lookup(rows, name, default) ==
    IF \E r \in rows : r[1] = name
    THEN (CHOOSE r \in rows : r[1] = name)[2]
    ELSE default

\* body.get('repository', {}).get("name", "")
RepoNameOf(b) ==
    Get(b.repository.name, PyStr(<<>>)).s

NoContext ==
    [k \in Range(PlaceholderKeys) |-> Unbound]

BuildContext(pr, jd, d) ==
    [k \in Range(PlaceholderKeys) |->
        CASE k = "githubTitle"       -> Get(pr.title, PyStr(<<>>))
          [] k = "githubDescription" -> Get(pr.body, PyStr(<<>>))
          [] k = "jiraTitle"         -> Get(jd.summary, PyStr(<<>>))
          [] k = "jiraDescription"   -> Get(jd.description, PyStr(<<>>))
          [] k = "branchDiff"        -> d]

call_claude(prompt, o) ==
    IF o.kind = "client_raises"
    THEN [raises |-> TRUE, msg |-> o.msg, value |-> <<>>, caught |-> <<>>,
          calls |-> <<"call_claude", "boto3.client:bedrock-runtime">>]
    ELSE IF o.kind = "invoke_raises"
    THEN [raises |-> FALSE, msg |-> <<>>, value |-> ClaudeErrorSentinel, caught |-> <<o.msg>>,
          calls |-> <<"call_claude", "boto3.client:bedrock-runtime", "bedrock.invoke_model">>]
    ELSE [raises |-> FALSE, msg |-> <<>>, value |-> o.text, caught |-> <<>>,
          calls |-> <<"call_claude", "boto3.client:bedrock-runtime", "bedrock.invoke_model">>]

-----------------------------------------------------------------------------
(* lambda_handler                                                          *)

\* except Exception as e: return {"statusCode": 500, ...}
Caught(msg) ==
    /\ raised' = Append(raised, msg)
    /\ escaped' = PyStr(msg)
    /\ response' = ErrorResponse(msg)
    /\ pc' = "Responded"

Return(r) ==
    /\ response' = r
    /\ pc' = "Responded"
    /\ UNCHANGED <<raised, escaped>>

Continue(next) ==
    /\ pc' = next
    /\ UNCHANGED <<response, raised, escaped>>

\* lines 145-169
Validate ==
    /\ pc = "Received"
    /\ LET v  == ValidateEvent(event)
           pr == PrDataOf(event.payload)
       IN  /\ CASE v.kind = "raises"  -> Caught(v.msg) /\ UNCHANGED body
                [] v.kind = "ignored" -> Return(v.response) /\ body' = event.payload
                [] OTHER              -> Continue("Validated") /\ body' = event.payload
           /\ IF v.kind = "accepted"
              THEN /\ pr_data' = pr
                   /\ pr_title' = Get(pr.title, PyStr(UnknownPR))
                   /\ pr_number' = Get(pr.number, PyStr(UnknownNumber))
                   /\ diff_url' = Get(pr.diff_url, None)
              ELSE UNCHANGED <<pr_data, pr_title, pr_number, diff_url>>
    /\ UNCHANGED <<event, diff, jira_key, jira_data, repo_prompt, context,
                   final_prompt, risk_assessment, calls, outcome, delivery, prev>>
    /\ UNCHANGED <<keyVars, promptVars>>

\* line 172
FetchDiff ==
    /\ pc = "Validated"
    /\ \E o \in DiffOutcomes :
        /\ (o.kind = "invalid_url") <=> (diff_url = None /\ o.kind # "ssm_raises")
        /\ LET r == fetch_pr_diff(diff_url, o)
           IN  /\ calls' = calls \o r.calls
               /\ outcome' = [outcome EXCEPT !.diff = o]
               /\ IF r.raises
                  THEN Caught(r.msg) /\ UNCHANGED diff
                  ELSE Continue("DiffFetched") /\ diff' = PyStr(r.value)
    /\ UNCHANGED <<event, body, pr_data, pr_title, pr_number, diff_url, jira_key,
                   jira_data, repo_prompt, context, final_prompt, risk_assessment,
                   delivery, prev>>
    /\ UNCHANGED <<keyVars, promptVars>>

\* lines 179-190
ResolveTicket ==
    /\ pc = "DiffFetched"
    /\ LET k == extract_jira_key(pr_title.s)
       IN  /\ jira_key' = k
           /\ \E o \in TicketOutcomes \cup {NoTicketCall} :
                /\ (o = NoTicketCall) <=> ~Truthy(k)
                /\ outcome' = [outcome EXCEPT !.ticket = o]
                /\ IF o = NoTicketCall
                   THEN UNCHANGED <<jira_data, calls, raised>>
                   ELSE LET r == fetch_jira_ticket(k.s, o)
                        IN  /\ calls' = calls \o r.calls
                            /\ IF r.raises
                               THEN raised' = Append(raised, r.msg) /\ UNCHANGED jira_data
                               ELSE jira_data' = r.value /\ UNCHANGED raised
    /\ pc' = "TicketResolved"
    /\ UNCHANGED <<event, body, pr_data, pr_title, pr_number, diff_url, diff,
                   repo_prompt, context, final_prompt, risk_assessment, response,
                   escaped, delivery, prev>>
    /\ UNCHANGED <<keyVars, promptVars>>

\* lines 193-196
LoadTemplates ==
    /\ pc = "TicketResolved"
    /\ \E o \in TemplateOutcomes :
        /\ outcome' = [outcome EXCEPT !.template = o]
        /\ raised' = IF o.kind = "raises" THEN Append(raised, o.msg) ELSE raised
        /\ repo_prompt' = PyStr(Lookup(load_prompt_templates_from_s3(o),
                                     RepoNameOf(body), DefaultPrompt))
    /\ calls' = calls \o <<"load_prompt_templates_from_s3", "s3.get_object">>
    /\ pc' = "TemplateLoaded"
    /\ UNCHANGED <<event, body, pr_data, pr_title, pr_number, diff_url, diff,
                   jira_key, jira_data, context, final_prompt, risk_assessment,
                   response, escaped, delivery, prev>>
    /\ UNCHANGED <<keyVars, promptVars>>

\* lines 199-205
MakeContext ==
    /\ pc = "TemplateLoaded"
    /\ IF jira_data.bound
       THEN /\ context' = BuildContext(pr_data, jira_data, diff)
            /\ Continue("ContextBuilt")
       ELSE /\ Caught(UnboundLocalMsg)
            /\ UNCHANGED context
    /\ UNCHANGED <<event, body, pr_data, pr_title, pr_number, diff_url, diff,
                   jira_key, jira_data, repo_prompt, final_prompt, risk_assessment,
                   calls, outcome, delivery, prev>>
    /\ UNCHANGED <<keyVars, promptVars>>

\* lines 208-209
BuildPrompt ==
    /\ pc = "ContextBuilt"
    /\ LET r == build_final_prompt(repo_prompt.s, context)
       IN  IF r.raises
           THEN Caught(r.msg) /\ UNCHANGED final_prompt
           ELSE Continue("PromptBuilt") /\ final_prompt' = PyStr(r.value)
    /\ UNCHANGED <<event, body, pr_data, pr_title, pr_number, diff_url, diff,
                   jira_key, jira_data, repo_prompt, context, risk_assessment,
                   calls, outcome, delivery, prev>>
    /\ UNCHANGED <<keyVars, promptVars>>

\* lines 212-213
InvokeModel ==
    /\ pc = "PromptBuilt"
    /\ \E o \in ModelOutcomes :
        LET r == call_claude(final_prompt.s, o)
        IN  /\ outcome' = [outcome EXCEPT !.model = o]
            /\ calls' = calls \o r.calls
            /\ IF r.raises
               THEN Caught(r.msg) /\ UNCHANGED risk_assessment
               ELSE /\ risk_assessment' = PyStr(r.value)
                    /\ raised' = raised \o r.caught
                    /\ pc' = "ModelInvoked"
                    /\ UNCHANGED <<response, escaped>>
    /\ UNCHANGED <<event, body, pr_data, pr_title, pr_number, diff_url, diff,
                   jira_key, jira_data, repo_prompt, context, final_prompt,
                   delivery, prev>>
    /\ UNCHANGED <<keyVars, promptVars>>

\* lines 215-225
Respond ==
    /\ pc = "ModelInvoked"
    /\ Return(SuccessResponse(pr_number, diff.s))
    /\ UNCHANGED <<event, body, pr_data, pr_title, pr_number, diff_url, diff,
                   jira_key, jira_data, repo_prompt, context, final_prompt,
                   risk_assessment, calls, outcome, delivery, prev>>
    /\ UNCHANGED <<keyVars, promptVars>>

NoPrev ==
    [outcome |-> NoOutcome, response |-> NoResponse]

\* no local of lambda_handler is bound
FreshLocals ==
    /\ body = GarbagePayload
    /\ pr_data = EmptyDict
    /\ pr_title = Unbound
    /\ pr_number = Unbound
    /\ diff_url = Unbound
    /\ diff = Unbound
    /\ jira_key = Unbound
    /\ jira_data = UnboundJiraData
    /\ repo_prompt = Unbound
    /\ context = NoContext
    /\ final_prompt = Unbound
    /\ risk_assessment = Unbound
    /\ response = NoResponse
    /\ calls = <<>>
    /\ raised = <<>>
    /\ escaped = Unbound
    /\ outcome = NoOutcome

\* the state on entry to lambda_handler
Entered ==
    /\ pc = "Received"
    /\ FreshLocals

\* the platform invokes lambda_handler again with the same event
Redeliver ==
    /\ pc = "Responded"
    /\ delivery < MaxDeliveries
    /\ delivery' = delivery + 1
    /\ prev' = [outcome |-> outcome, response |-> response]
    /\ pc' = "Received"
    /\ body' = GarbagePayload
    /\ pr_data' = EmptyDict
    /\ pr_title' = Unbound
    /\ pr_number' = Unbound
    /\ diff_url' = Unbound
    /\ diff' = Unbound
    /\ jira_key' = Unbound
    /\ jira_data' = UnboundJiraData
    /\ repo_prompt' = Unbound
    /\ context' = NoContext
    /\ final_prompt' = Unbound
    /\ risk_assessment' = Unbound
    /\ response' = NoResponse
    /\ calls' = <<>>
    /\ raised' = <<>>
    /\ escaped' = Unbound
    /\ outcome' = NoOutcome
    /\ UNCHANGED event
    /\ UNCHANGED <<keyVars, promptVars>>

-----------------------------------------------------------------------------
(* extract_jira_key and build_final_prompt applied on their own            *)

KeyAlphabet ==
    {"a", "1", "-", " "}

RECURSIVE SeqsUpTo(_, _)
SeqsUpTo(S, n) ==
    IF n = 0 THEN {<<>>}
    ELSE LET shorter == SeqsUpTo(S, n - 1)
         IN  shorter \cup {Append(s, c) : s \in {t \in shorter : Len(t) = n - 1}, c \in S}

Texts ==
    SeqsUpTo(KeyAlphabet, MaxTextLen)

ExtractJiraKey ==
    /\ key = Unbound
    /\ key' = extract_jira_key(text)
    /\ UNCHANGED <<text, handlerVars, promptVars>>

\* template text: a plain character, whole tokens, and the two halves of one
Pieces ==
    {<<"x">>, TokGithubTitle, TokJiraTitle, TokBranchDiff,
     SubSeq(TokGithubTitle, 1, 8), SubSeq(TokGithubTitle, 9, Len(TokGithubTitle))}

RECURSIVE Concat(_)
Concat(ps) ==
    IF ps = <<>> THEN <<>> ELSE Head(ps) \o Concat(Tail(ps))

Templates ==
    {Concat(ps) : ps \in SeqsUpTo(Pieces, MaxPieces)}

ContextValues ==
    {Absent, PyStr(<<"v">>), PyStr(TokBranchDiff), PyStr(TokGithubTitle)}

Contexts ==
    [githubTitle : ContextValues,
     githubDescription : {Absent, PyStr(BodyText)},
     jiraTitle : ContextValues,
     jiraDescription : {Absent, PyStr(JiraDescription)},
     branchDiff : ContextValues]

NotBuilt ==
    [raises |-> FALSE, value |-> <<>>, msg |-> <<"-">>]

BuildFinalPrompt ==
    /\ built = NotBuilt
    /\ built' = build_final_prompt(template, promptContext)
    /\ UNCHANGED <<template, promptContext, handlerVars, keyVars>>

-----------------------------------------------------------------------------
(* Specifications                                                          *)

HandlerIdle ==
    /\ event = [hasBody |-> TRUE, bodyValid |-> FALSE, payload |-> GarbagePayload]
    /\ pc = "Idle"
    /\ FreshLocals
    /\ delivery = 0
    /\ prev = NoPrev

KeyIdle ==
    /\ text = <<>>
    /\ key = None

PromptIdle ==
    /\ template = <<>>
    /\ promptContext = NoContext
    /\ built = [raises |-> FALSE, value |-> <<>>, msg |-> <<>>]

Init ==
    /\ event \in Events
    /\ Entered
    /\ delivery = 1
    /\ prev = NoPrev
    /\ KeyIdle
    /\ PromptIdle

Next ==
    \/ Validate
    \/ FetchDiff
    \/ ResolveTicket
    \/ LoadTemplates
    \/ MakeContext
    \/ BuildPrompt
    \/ InvokeModel
    \/ Respond

Spec ==
    Init /\ [][Next]_vars

InitDeliver ==
    /\ event \in DeliveredEvents
    /\ Entered
    /\ delivery = 1
    /\ prev = NoPrev
    /\ KeyIdle
    /\ PromptIdle

NextDeliver ==
    \/ Next
    \/ Redeliver

SpecDeliver ==
    InitDeliver /\ [][NextDeliver]_vars

InitKey ==
    /\ text \in Texts
    /\ key = Unbound
    /\ HandlerIdle
    /\ PromptIdle

SpecKey ==
    InitKey /\ [][ExtractJiraKey]_vars

InitPrompt ==
    /\ template \in Templates
    /\ promptContext \in Contexts
    /\ built = NotBuilt
    /\ HandlerIdle
    /\ KeyIdle

SpecPrompt ==
    InitPrompt /\ [][BuildFinalPrompt]_vars

-----------------------------------------------------------------------------
(* Properties                                                              *)

Count(seq, x) ==
    Cardinality({i \in DOMAIN seq : seq[i] = x})

ParsedEvent ==
    ~(event.hasBody /\ ~event.bodyValid)

\* action "opened", pull_request present and not a draft
AcceptedEvent ==
    /\ ParsedEvent
    /\ event.payload.action = PyStr(StrOpened)
    /\ ~IsEmptyPR(PrDataOf(event.payload))
    /\ event.payload.pull_request.draft # PyBool(TRUE)

DiffSucceeded ==
    outcome.diff.kind = "response" /\ outcome.diff.status = 200

DiffFailed ==
    outcome.diff.kind # "not_called" /\ ~DiffSucceeded

\* C1: for an accepted event whose diff fetch succeeds, when the title holds
\* no ticket key or the ticket fetch raises, the handler still loads the
\* template, builds the prompt with empty ticket fields, invokes the model
\* and answers 200 with pr_number and diff_length.
C1_TicketOptional ==
    (/\ pc = "Responded"
     /\ AcceptedEvent
     /\ DiffSucceeded
     /\ ~jira_data.bound)
    => /\ outcome.template.kind # "not_called"
       /\ context # NoContext
       /\ context["jiraTitle"] = PyStr(<<>>)
       /\ context["jiraDescription"] = PyStr(<<>>)
       /\ final_prompt # Unbound
       /\ outcome.model.kind # "not_called"
       /\ response = SuccessResponse(Get(event.payload.pull_request.number,
                                         PyStr(UnknownNumber)),
                                     outcome.diff.text)

\* C2: when the diff retrieval fails (secret lookup or request raises, or a
\* status other than 200 comes back) the handler answers 500 with body
\* {error: message}, the message holds the returned status code, fetch_pr_diff
\* ran once with at most one request, and no ticket fetch, template load or
\* model invocation was made.
C2_DiffFailureFatal ==
    (pc = "Responded" /\ DiffFailed)
    => /\ response.statusCode = 500
       /\ DOMAIN response.body = {"error"}
       /\ (outcome.diff.kind = "response"
              => Contains(response.body.error, Decimal(outcome.diff.status)))
       /\ Count(calls, "fetch_pr_diff") = 1
       /\ Count(calls, "requests.get:diff") <= 1
       /\ (outcome.diff.kind \in {"response", "get_raises"}
              => Count(calls, "requests.get:diff") = 1)
       /\ Range(calls) \subseteq {"fetch_pr_diff", "ssm.get_parameter", "requests.get:diff"}
       /\ outcome.ticket.kind = "not_called"
       /\ outcome.template.kind = "not_called"
       /\ outcome.model.kind = "not_called"
       /\ jira_key = Unbound

C2_Witness ==
    /\ pc = "Responded"
    /\ outcome.diff.kind = "response"
    /\ outcome.diff.status = 503
    /\ response = ErrorResponse(GitHubErrorPrefix \o <<"5","0","3">> \o ColonSpace \o TextBusy)
    /\ Len(calls) = 3

\* C3: an event whose action is not "opened", or whose pull_request is
\* missing or a draft, is answered 200 without an error and without any
\* collaborator call; a missing pull_request gets the draft's response.
C3_IgnoredEvents ==
    (/\ pc = "Responded"
     /\ ParsedEvent
     /\ \/ event.payload.action # PyStr(StrOpened)
        \/ event.payload.pull_request.t = "absent"
        \/ event.payload.pull_request.draft = PyBool(TRUE))
    => /\ response.statusCode = 200
       /\ DOMAIN response.body = {"message"}
       /\ calls = <<>>
       /\ raised = <<>>
       /\ outcome = NoOutcome
       /\ (event.payload.action = PyStr(StrOpened)
              => response = IgnoredResponse(MsgIgnoringDraft))

C3_Witness ==
    /\ pc = "Responded"
    /\ event.payload.action = PyStr(StrOpened)
    /\ event.payload.pull_request.draft = PyBool(TRUE)
    /\ event.payload.pull_request.diff_url # Absent
    /\ response = IgnoredResponse(MsgIgnoringDraft)
    /\ calls = <<>>

\* C4: with the event and the outcomes of the diff and ticket steps fixed,
\* the response is the same whatever the template load and the model
\* invocation did; a failed template load builds the prompt from the default
\* prompt, a failed model invocation leaves the error sentinel as the
\* risk assessment.
C4_ResponseIndependent ==
    /\ (/\ pc = "Responded"
        /\ delivery > 1
        /\ prev.outcome.diff = outcome.diff
        /\ prev.outcome.ticket = outcome.ticket)
       => response = prev.response
    /\ (final_prompt # Unbound /\ outcome.template.kind = "raises")
       => final_prompt.s = build_final_prompt(DefaultPrompt, context).value
    /\ (risk_assessment # Unbound /\ outcome.model.kind \in {"client_raises", "invoke_raises"})
       => risk_assessment = PyStr(ClaudeErrorSentinel)

TerminalOK ==
    /\ response.statusCode = 200
    /\ DOMAIN response.body = {"message", "pr_number", "diff_length"}

TerminalIgnored ==
    /\ response.statusCode = 200
    /\ DOMAIN response.body = {"message"}

TerminalError ==
    /\ response.statusCode = 500
    /\ DOMAIN response.body = {"error"}

Steps ==
    <<"Received", "Validated", "DiffFetched", "TicketResolved", "TemplateLoaded",
      "ContextBuilt", "PromptBuilt", "ModelInvoked", "Responded">>

StepOf(p) ==
    CHOOSE i \in DOMAIN Steps : Steps[i] = p

C6_SuccessBody ==
    (pc = "Responded" /\ risk_assessment # Unbound)
    => /\ response.statusCode = 200
       /\ DOMAIN response.body = {"message", "pr_number", "diff_length"}
       /\ response.body.message = MsgProcessed
       /\ response.body.message # risk_assessment.s
       /\ response.body.pr_number = Get(event.payload.pull_request.number,
                                        PyStr(UnknownNumber))
       /\ response.body.diff_length = Len(outcome.diff.text)

C6_Witness ==
    /\ pc = "Responded"
    /\ risk_assessment = PyStr(ModelText)
    /\ response.body.pr_number = PyInt(7)
    /\ response.body.diff_length = 4
    /\ outcome.diff.text = DiffB

\* every token of the original template replaced by its value in one pass
RECURSIVE SubstituteFrom(_, _, _)
SubstituteFrom(s, i, ctx) ==
    IF i > Len(s) THEN <<>>
    ELSE IF \E k \in Range(PlaceholderKeys) : StartsWithAt(s, i, Token(k))
         THEN LET k == CHOOSE j \in Range(PlaceholderKeys) : StartsWithAt(s, i, Token(j))
              IN  Get(ctx[k], PyStr(<<>>)).s \o SubstituteFrom(s, i + Len(Token(k)), ctx)
         ELSE <<s[i]>> \o SubstituteFrom(s, i + 1, ctx)

KeyOrders ==
    {o \in [1..Len(PlaceholderKeys) -> Range(PlaceholderKeys)] :
        \A a, b \in DOMAIN o : a # b => o[a] # o[b]}

\* C7: the output is the template with every occurrence of every token of
\* the original template replaced by its context value, inserted values not
\* being scanned again, and is the same in whatever order the keys are taken.
C7_SimultaneousSubstitution ==
    built # NotBuilt
    => /\ built.value = SubstituteFrom(template, 1, promptContext)
       /\ \A o \in KeyOrders :
             ReplaceLoop(template, Placeholders(promptContext), o, 1).value = built.value

\* C8: the token of a key absent from the context is replaced by the empty
\* string, and the output holds no literal occurrence of that token.
C8_NoLiteralToken ==
    built # NotBuilt
    => \A k \in Range(PlaceholderKeys) :
          promptContext[k] = Absent => ~Contains(built.value, Token(k))

\* i..k is word characters, a hyphen, then digits
KeyShape(s, i, k) ==
    \E h \in (i + 1)..(k - 1) :
        /\ \A p \in i..(h - 1) : IsWord(s[p])
        /\ s[h] = "-"
        /\ \A p \in (h + 1)..k : IsDigit(s[p])

KeySpans(s) ==
    {m \in (1..Len(s)) \X (1..Len(s)) : KeyShape(s, m[1], m[2])}

\* the spans whose last digit is not followed by a word character
ClosedKeySpans(s) ==
    {m \in KeySpans(s) : m[2] = Len(s) \/ ~IsWord(s[m[2] + 1])}

\* C9 as stated: the result is the leftmost substring of the form word
\* characters, hyphen, digits, upper-cased, and None when there is none.
C9_FirstKeyShape ==
    key # Unbound
    => IF KeySpans(text) = {}
       THEN key = None
       ELSE \E m \in KeySpans(text) :
               /\ \A o \in KeySpans(text) : m[1] <= o[1]
               /\ key = PyStr(Upper(SubSeq(text, m[1], m[2])))

\* C9, amended: the result is the leftmost substring of the form word
\* characters, hyphen, digits whose last digit is not followed by a word
\* character, upper-cased, and None when there is none.
C9_FirstClosedKey ==
    key # Unbound
    => IF ClosedKeySpans(text) = {}
       THEN key = None
       ELSE \E m \in ClosedKeySpans(text) :
               /\ \A o \in ClosedKeySpans(text) : m[1] <= o[1]
               /\ key = PyStr(Upper(SubSeq(text, m[1], m[2])))

C9_Witness ==
    /\ text = <<"a","-","1"," ","1","-","1">>
    /\ key = PyStr(<<"A","-","1">>)

\* C10: the context handed to build_final_prompt maps each of the five
\* names to a string, so that building the prompt does not fail.
C10_ContextAllStrings ==
    /\ context # NoContext
       => \A k \in Range(PlaceholderKeys) : context[k].t = "str"
    /\ pc = "Responded" /\ context # NoContext
       => final_prompt # Unbound

====
